---- MODULE Spec2Model ----
(***************************************************************************)
(* The mini machine-learning pipeline of "Massive Machine Learning         *)
(* Pipelines with scikit-learn - Part 1": the notebook's kernel state, one *)
(* action per code cell, and the fit / transform / predict / dump / load   *)
(* calls the cells make, with the configuration the notebook gives them.   *)
(*                                                                         *)
(* Numbers.  A raw table cell is a non-negative integer (a category code   *)
(* or a measurement) or NaN.  Behind the imputers a cell is an exact       *)
(* rational <<num, den>>.  A cell of a transformed matrix is the real      *)
(* number num / sqrt(sq), kept as the record [num, sq] of two rationals,   *)
(* so that standardization is exact.  Ridge regression is kept symbolic:   *)
(* the learned coefficients are named by the data they were solved from,   *)
(* and a prediction by the coefficients and the row it was made for; equal *)
(* terms denote equal floating-point results.                              *)
(***************************************************************************)
EXTENDS Integers, Sequences, FiniteSets, TLC

\* ------------------------------------------------------------------ bounds
\* Most rows of the training file data/train.csv.
MaxRows == 2
\* Most rows of the test file data/test.csv.
MaxTestRows == 1
\* Most cell executions out of document order (re-runs, skips ahead).
MaxExtra == 1

\* ------------------------------------------------------- the kernel's state
VARIABLES
  train_csv, test_csv,   \* the contents of data/train.csv and data/test.csv
  names,                 \* the names bound in the kernel
  housing, y,            \* the training table and the extracted target
  ct,                    \* the ColumnTransformer the name ct is bound to
  shared,                \* whether final_pipe's first step is that same object
  pipe_ct, ridge,        \* final_pipe's two steps
  X_t,                   \* the matrix ct.fit_transform returned
  housing_test, y_pred,  \* the test table and the predictions for it
  model_file,            \* models/minipipeline_ridge.joblib, <<>> while absent
  dumped_pipe,           \* the pipeline as it was when it was last dumped
  final_pipe_new, y_pred_new,
  sub01, sub_csv,        \* the submission table and data/submissions/.../sub01.csv
  io,                    \* the file and network operations performed so far
  last,                  \* the cell executed last and how it ended
  pc,                    \* the position of the next cell in document order
  budget,                \* the out-of-order executions still allowed
  inOrder,               \* every cell so far ran at its place in document order
  n_fits                 \* how often the groups' chains have been estimated

\* --------------------------------------------------------------- rationals
NaN == -1

Abs(n) == IF n < 0 THEN -n ELSE n

RECURSIVE Gcd(_, _)
Gcd(a, b) == IF b = 0 THEN a ELSE Gcd(b, a % b)

\* numpy's nan as a rational: it propagates through arithmetic and sorts last.
NaNStat == <<0, 0>>

\* A rational in lowest terms with a positive denominator.
Rat(n, d) ==
  IF d = 0 THEN NaNStat
  ELSE LET g == Gcd(Abs(n), Abs(d))
           s == IF d < 0 THEN -1 ELSE 1
       IN  <<(s * n) \div g, (s * d) \div g>>

RatOf(v) == <<v, 1>>
RatAdd(p, q) == Rat(p[1] * q[2] + q[1] * p[2], p[2] * q[2])
RatSub(p, q) == Rat(p[1] * q[2] - q[1] * p[2], p[2] * q[2])
RatMul(p, q) == Rat(p[1] * q[1], p[2] * q[2])
RatLeq(p, q) == q = NaNStat \/ (p # NaNStat /\ p[1] * q[2] <= q[1] * p[2])

RECURSIVE RatSum(_)
RatSum(s) == IF s = <<>> THEN RatOf(0) ELSE RatAdd(Head(s), RatSum(Tail(s)))

\* numpy.mean of a non-empty sequence of rationals.
RatMean(s) == RatMul(RatSum(s), Rat(1, Len(s)))

\* ------------------------------------------------------------------ tables
\* A pandas DataFrame: the column labels and, row by row, the cells under them.
NumRows(df) == Len(df.rows)
HasColumn(df, name) == \E i \in 1..Len(df.columns) : df.columns[i] = name
Loc(df, name) == CHOOSE i \in 1..Len(df.columns) : df.columns[i] = name

\* df[name].values
Values(df, name) == [r \in 1..NumRows(df) |-> df.rows[r][Loc(df, name)]]

\* A raw cell as a float.
ToFloat(v) == IF v = NaN THEN NaNStat ELSE RatOf(v)

\* df[cols] as an array: the named columns, in the order they are named.
Select(df, cols) ==
  [r \in 1..NumRows(df) |->
     [j \in 1..Len(cols) |-> ToFloat(df.rows[r][Loc(df, cols[j])])]]

RemoveAt(s, i) == [k \in 1..(Len(s) - 1) |-> IF k < i THEN s[k] ELSE s[k + 1]]

\* The table left behind by df.pop(name).
Without(df, name) ==
  [columns |-> RemoveAt(df.columns, Loc(df, name)),
   rows    |-> [r \in 1..NumRows(df) |-> RemoveAt(df.rows[r], Loc(df, name))]]

\* The matrices the estimators pass on: a sequence of rows of equal length.
NumCols(X) == IF X = <<>> THEN 0 ELSE Len(X[1])
Column(X, j) == [r \in 1..Len(X) |-> X[r][j]]

RECURSIVE Flatten(_)
Flatten(ss) == IF ss = <<>> THEN <<>> ELSE Head(ss) \o Flatten(Tail(ss))

\* numpy.hstack of matrices with the same rows.
HStack(Xs, n) == [r \in 1..n |-> Flatten([g \in 1..Len(Xs) |-> Xs[g][r]])]

\* ---------------------------------------------------------- configuration
cat_cols == <<"Neighborhood", "LotShape", "OverallQual", "MasVnrType">>
cont_cols == <<"GrLivArea", "GarageArea", "LotFrontage">>

si_cat == [kind |-> "SimpleImputer", strategy |-> "most_frequent"]
ohe_unknown_error == [kind |-> "OneHotEncoder", sparse |-> FALSE, handle_unknown |-> "error"]
ohe == [kind |-> "OneHotEncoder", sparse |-> FALSE, handle_unknown |-> "ignore"]
si_cont == [kind |-> "SimpleImputer", strategy |-> "mean"]
ss == [kind |-> "StandardScaler"]

cat_steps == << <<"si", si_cat>>, <<"ohe", ohe>> >>
cont_steps == << <<"si", si_cont>>, <<"ss", ss>> >>

transformers_cont_first ==
  << [name |-> "cont_cols", steps |-> cont_steps, columns |-> cont_cols],
     [name |-> "cat_cols", steps |-> cat_steps, columns |-> cat_cols] >>
transformers ==
  << [name |-> "cat_cols", steps |-> cat_steps, columns |-> cat_cols],
     [name |-> "cont_cols", steps |-> cont_steps, columns |-> cont_cols] >>

ridge_config == [kind |-> "Ridge", alpha |-> 1]

\* ----------------------------------------------------------- SimpleImputer
IsObserved(q) == q # NaNStat
Observed(col) == SelectSeq(col, IsObserved)
Count(s, v) == Cardinality({i \in DOMAIN s : s[i] = v})
RatMin(S) == CHOOSE m \in S : \A x \in S : RatLeq(m, x)

\* strategy='most_frequent': the smallest of the most frequent observed values.
MostFrequent(col) ==
  LET obs == Observed(col)
  IN  IF obs = <<>> THEN NaNStat
      ELSE LET vals == {obs[i] : i \in DOMAIN obs}
               modes == {v \in vals : \A w \in vals : Count(obs, w) <= Count(obs, v)}
           IN  RatMin(modes)

\* strategy='mean': the mean of the observed values.
Mean(col) ==
  LET obs == Observed(col)
  IN  IF obs = <<>> THEN NaNStat ELSE RatMean(obs)

SimpleImputerFit(strategy, X) ==
  [statistics_ |->
     [j \in 1..NumCols(X) |->
        IF strategy = "most_frequent" THEN MostFrequent(Column(X, j))
                                      ELSE Mean(Column(X, j))]]

\* Every column kept, observed or not.
ValidColumnsKeepAll(statistics) == [j \in 1..Len(statistics) |-> j]

\* The columns that had an observed value at fit; the others are discarded.
ValidColumns(statistics) ==
  SelectSeq([j \in 1..Len(statistics) |-> j], LAMBDA j : statistics[j] # NaNStat)

SimpleImputerTransform(si, X) ==
  LET valid == ValidColumns(si.statistics_)
  IN  [r \in 1..Len(X) |->
         [k \in 1..Len(valid) |->
            IF IsObserved(X[r][valid[k]]) THEN X[r][valid[k]]
                                          ELSE si.statistics_[valid[k]]]]

\* ----------------------------------------------------------- OneHotEncoder
\* A cell of a transformed matrix: the real number num / sqrt(sq).
Cell(num, sq) == [num |-> num, sq |-> sq]
Plain(v) == Cell(RatOf(v), RatOf(1))

RECURSIVE Sorted(_)
Sorted(S) == IF S = {} THEN <<>> ELSE <<RatMin(S)>> \o Sorted(S \ {RatMin(S)})

\* categories_: per column, the sorted distinct values seen at fit.
OneHotEncoderFit(X) ==
  [categories_ |->
     [j \in 1..NumCols(X) |-> Sorted({X[r][j] : r \in 1..Len(X)})]]

IsKnown(categories, v) == \E c \in 1..Len(categories) : categories[c] = v

\* A value not among the fitted categories of its column.
HasUnknown(p, X) ==
  \E r \in 1..Len(X) : \E j \in 1..NumCols(X) : ~IsKnown(p.categories_[j], X[r][j])

\* sparse=False: a dense row of indicators, column by column.
OneHotEncoderTransform(p, X) ==
  [r \in 1..Len(X) |->
     Flatten([j \in 1..NumCols(X) |->
                [c \in 1..Len(p.categories_[j]) |->
                   Plain(IF X[r][j] = p.categories_[j][c] THEN 1 ELSE 0)]])]

\* ---------------------------------------------------------- StandardScaler
Square(q) == RatMul(q, q)

StandardScalerFit(X) ==
  LET mean == [j \in 1..NumCols(X) |-> RatMean(Column(X, j))]
  IN  [mean_ |-> mean,
       var_  |-> [j \in 1..NumCols(X) |->
                    RatMean([r \in 1..Len(X) |-> Square(RatSub(X[r][j], mean[j]))])]]

\* scale_ is sqrt(var_), and 1 where the variance is zero.
StandardScalerTransform(p, X) ==
  [r \in 1..Len(X) |->
     [j \in 1..NumCols(X) |->
        Cell(RatSub(X[r][j], p.mean_[j]),
             IF p.var_[j] = RatOf(0) THEN RatOf(1) ELSE p.var_[j])]]

\* ------------------------------------------- the estimator interface
Fit(est, X) ==
  CASE est.kind = "SimpleImputer"  -> SimpleImputerFit(est.strategy, X)
    [] est.kind = "OneHotEncoder"  -> OneHotEncoderFit(X)
    [] est.kind = "StandardScaler" -> StandardScalerFit(X)

Transform(est, p, X) ==
  CASE est.kind = "SimpleImputer"  -> SimpleImputerTransform(p, X)
    [] est.kind = "OneHotEncoder"  -> OneHotEncoderTransform(p, X)
    [] est.kind = "StandardScaler" -> StandardScalerTransform(p, X)

\* check_array: an estimator refuses a matrix with no column (ValueError).
FitRaises(est, X) == NumCols(X) = 0

\* handle_unknown='error' refuses an unknown category; 'ignore' does not.
TransformRaises(est, p, X) ==
  /\ est.kind = "OneHotEncoder"
  /\ est.handle_unknown = "error"
  /\ HasUnknown(p, X)

\* The input columns each output column of a step derives from.
NamesThrough(est, p, labels) ==
  CASE est.kind = "SimpleImputer" ->
         LET valid == ValidColumns(p.statistics_)
         IN  [k \in 1..Len(valid) |-> labels[valid[k]]]
    [] est.kind = "OneHotEncoder" ->
         Flatten([j \in 1..Len(labels) |->
                    [c \in 1..Len(p.categories_[j]) |-> labels[j]]])
    [] est.kind = "StandardScaler" -> labels

\* ---------------------------------------------------- Pipeline (of a group)
\* steps is a sequence of <<name, estimator>>.
\* fit: each step is fitted on the output of the steps before it.
RECURSIVE PipelineFit(_, _)
PipelineFit(steps, X) ==
  IF steps = <<>> THEN <<>>
  ELSE LET p == Fit(Head(steps)[2], X)
       IN  <<p>> \o PipelineFit(Tail(steps), Transform(Head(steps)[2], p, X))

RECURSIVE PipelineFitRaises(_, _)
PipelineFitRaises(steps, X) ==
  IF steps = <<>> THEN FALSE
  ELSE \/ FitRaises(Head(steps)[2], X)
       \/ LET p == Fit(Head(steps)[2], X)
          IN  \/ TransformRaises(Head(steps)[2], p, X)
              \/ PipelineFitRaises(Tail(steps), Transform(Head(steps)[2], p, X))

RECURSIVE PipelineTransform(_, _, _)
PipelineTransform(steps, params, X) ==
  IF steps = <<>> THEN X
  ELSE PipelineTransform(Tail(steps), Tail(params),
                         Transform(Head(steps)[2], Head(params), X))

RECURSIVE PipelineTransformRaises(_, _, _)
PipelineTransformRaises(steps, params, X) ==
  IF steps = <<>> THEN FALSE
  ELSE \/ TransformRaises(Head(steps)[2], Head(params), X)
       \/ PipelineTransformRaises(Tail(steps), Tail(params),
                                  Transform(Head(steps)[2], Head(params), X))

RECURSIVE PipelineNames(_, _, _)
PipelineNames(steps, params, labels) ==
  IF steps = <<>> THEN labels
  ELSE PipelineNames(Tail(steps), Tail(params),
                     NamesThrough(Head(steps)[2], Head(params), labels))

\* -------------------------------------------------------- ColumnTransformer
\* remainder: the columns no group names.  The default, 'drop', passes none.
Unlisted(trs, df) ==
  SelectSeq(df.columns,
            LAMBDA c : \A g \in 1..Len(trs) :
                          \A k \in 1..Len(trs[g].columns) : trs[g].columns[k] # c)

RemainderPassthrough(trs, df) == Unlisted(trs, df)
Remainder(trs, df) == <<>>

RemainderBlock(trs, df) ==
  LET cols == Remainder(trs, df)
  IN  [r \in 1..NumRows(df) |->
         [k \in 1..Len(cols) |-> Cell(ToFloat(df.rows[r][Loc(df, cols[k])]), RatOf(1))]]

\* transformers_: the fitted chain of every group, each fitted on its columns.
ColumnTransformerFit(trs, df) ==
  [g \in 1..Len(trs) |-> PipelineFit(trs[g].steps, Select(df, trs[g].columns))]

ColumnTransformerFitRaises(trs, df) ==
  \E g \in 1..Len(trs) : PipelineFitRaises(trs[g].steps, Select(df, trs[g].columns))

\* The groups' outputs side by side, in the order the groups are declared.
ColumnTransformerTransform(trs, fitted, df) ==
  HStack([g \in 1..(Len(trs) + 1) |->
            IF g <= Len(trs)
            THEN PipelineTransform(trs[g].steps, fitted[g], Select(df, trs[g].columns))
            ELSE RemainderBlock(trs, df)],
         NumRows(df))

ColumnTransformerTransformRaises(trs, fitted, df) ==
  \E g \in 1..Len(trs) :
     PipelineTransformRaises(trs[g].steps, fitted[g], Select(df, trs[g].columns))

\* The input column behind each output column.
FeatureNames(trs, fitted, df) ==
  Flatten([g \in 1..(Len(trs) + 1) |->
             IF g <= Len(trs)
             THEN PipelineNames(trs[g].steps, fitted[g], trs[g].columns)
             ELSE Remainder(trs, df)])

\* -------------------------------------------------------------------- Ridge
\* coef_ and intercept_, named by the matrix and the target they solve.
RidgeFit(X, target) == [alpha |-> ridge_config.alpha, X |-> X, y |-> target]

\* One prediction per row of X.
RidgePredict(coef, X) == [r \in 1..Len(X) |-> [coef_ |-> coef, x |-> X[r]]]

\* --------------------------------------------- the top-level Pipeline
\* An estimator object: whether it has been fitted, and what it learned.
NewColumnTransformer == [fitted |-> FALSE, transformers_ |-> <<>>]
NewRidge == [fitted |-> FALSE, coef_ |-> <<>>]

\* steps = [('ct', ct), ('ridge', ridge)]
Pipe(ctObj, ridgeObj) == [ct |-> ctObj, ridge |-> ridgeObj]

\* A dispatcher fitted on the test file instead.
FittedOnTestFile(df) ==
  [fitted |-> TRUE, transformers_ |-> ColumnTransformerFit(transformers, test_csv)]

\* ct.fit(df): every group's chain estimated from df.
FittedColumnTransformer(df) ==
  [fitted |-> TRUE, transformers_ |-> ColumnTransformerFit(transformers, df)]

\* ct.fit_transform(df), and ct.transform(df) of a fitted ct.
CtTransform(ctObj, df) == ColumnTransformerTransform(transformers, ctObj.transformers_, df)

\* The declared columns as they are in the table, untransformed.
RidgeInputRaw(ctObj, df) ==
  LET raw == Select(df, cat_cols \o cont_cols)
  IN  [r \in 1..Len(raw) |-> [k \in 1..Len(raw[r]) |-> Cell(raw[r][k], RatOf(1))]]

\* The matrix the last step of final_pipe.fit(X, y) is fitted on.
RidgeInput(ctObj, df) == CtTransform(ctObj, df)

\* A fit that adds the call's data to what an already fitted model was solved from.
PipeFitAccumulates(df, target) ==
  LET ctObj == FittedColumnTransformer(df)
  IN  Pipe(ctObj,
           [fitted |-> TRUE,
            coef_ |-> IF ridge.fitted
                      THEN RidgeFit(ridge.coef_.X \o RidgeInput(ctObj, df),
                                    ridge.coef_.y \o target)
                      ELSE RidgeFit(RidgeInput(ctObj, df), target)])

\* final_pipe.fit(df, target): the dispatcher first, then the model on its output.
\* Each fit assigns transformers_ and coef_ anew.
PipeFit(df, target) ==
  LET ctObj == FittedColumnTransformer(df)
  IN  Pipe(ctObj, [fitted |-> TRUE, coef_ |-> RidgeFit(RidgeInput(ctObj, df), target)])

\* predict without the model's own check that it has been fitted.
PredictOutcomeUnguarded(pipe, df) ==
  IF ~pipe.ct.fitted THEN "NotFittedError"
  ELSE IF ColumnTransformerTransformRaises(transformers, pipe.ct.transformers_, df)
       THEN "ValueError"
  ELSE "ok"

\* How final_pipe.predict(df) ends: check_is_fitted in the dispatcher's transform
\* and in the model's predict raises NotFittedError.
PredictOutcome(pipe, df) ==
  IF ~pipe.ct.fitted THEN "NotFittedError"
  ELSE IF ColumnTransformerTransformRaises(transformers, pipe.ct.transformers_, df)
       THEN "ValueError"
  ELSE IF ~pipe.ridge.fitted THEN "NotFittedError"
  ELSE "ok"

\* final_pipe.predict(df): transform with what was learned, then the model.
PipePredict(pipe, df) == RidgePredict(pipe.ridge.coef_, CtTransform(pipe.ct, df))

\* -------------------------------------------------------------- persistence
\* joblib.dump: the object graph written out attribute by attribute, each under
\* its path <<step, group, attribute>>.
GroupEntries(ctObj, g) ==
  [k \in 1..Len(transformers[g].steps) |->
     << <<"ct", transformers[g].name, transformers[g].steps[k][1]>>,
        ctObj.transformers_[g][k] >>]

\* Only the structure of the pipeline, without what it has learned.
DumpStructure(pipe) ==
  << << <<"ct", "", "fitted">>, FALSE >>,
     << <<"ridge", "", "fitted">>, FALSE >>,
     << <<"ridge", "", "coef_">>, <<>> >> >>

Dump(pipe) ==
  << << <<"ct", "", "fitted">>, pipe.ct.fitted >> >>
  \o (IF pipe.ct.fitted
      THEN Flatten([g \in 1..Len(transformers) |-> GroupEntries(pipe.ct, g)])
      ELSE <<>>)
  \o << << <<"ridge", "", "fitted">>, pipe.ridge.fitted >>,
        << <<"ridge", "", "coef_">>, pipe.ridge.coef_ >> >>

Lookup(bytes, key) == bytes[CHOOSE i \in 1..Len(bytes) : bytes[i][1] = key][2]

\* joblib.load: the object graph rebuilt from the file.
Load(bytes) ==
  LET fitted == Lookup(bytes, <<"ct", "", "fitted">>)
  IN  Pipe([fitted |-> fitted,
            transformers_ |->
              IF fitted
              THEN [g \in 1..Len(transformers) |->
                      [k \in 1..Len(transformers[g].steps) |->
                         Lookup(bytes, <<"ct", transformers[g].name,
                                         transformers[g].steps[k][1]>>)]]
              ELSE <<>>],
           [fitted |-> Lookup(bytes, <<"ridge", "", "fitted">>),
            coef_  |-> Lookup(bytes, <<"ridge", "", "coef_">>)])

\* ---------------------------------------------------------- the input files
\* The columns of data/train.csv in file order: the seven the notebook names, Id,
\* the target, and YrSold for the columns the notebook never names.
Header ==
  <<"Id", "LotFrontage", "LotShape", "Neighborhood", "OverallQual", "MasVnrType",
    "GrLivArea", "GarageArea", "YrSold", "SalePrice">>

\* Another order of the same columns.
HeaderShuffled ==
  <<"SalePrice", "GarageArea", "MasVnrType", "Id", "GrLivArea", "Neighborhood",
    "YrSold", "LotFrontage", "OverallQual", "LotShape">>

\* Houses, as <<LotFrontage, LotShape, Neighborhood, OverallQual, MasVnrType,
\* GrLivArea, GarageArea, YrSold, SalePrice>>: complete, with missing cells,
\* with every named cell missing, and with categories of its own.
Houses ==
  << <<60, 0, 1, 5, 0, 10, 4, 8, 200>>,
     <<NaN, 1, 1, 7, NaN, 12, 4, 9, 180>>,
     <<NaN, NaN, 0, 5, 1, 12, NaN, 9, 150>>,
     <<NaN, NaN, NaN, NaN, NaN, NaN, NaN, 8, 100>>,
     <<80, 2, 2, 9, 2, 14, 0, 7, 300>> >>

RECURSIVE SeqsUpTo(_, _)
SeqsUpTo(S, n) ==
  IF n = 0 THEN {<<>>}
  ELSE LET shorter == SeqsUpTo(S, n - 1)
       IN  shorter \cup {Append(s, x) : s \in {t \in shorter : Len(t) = n - 1}, x \in S}

\* A file with the given header whose r-th line is house picks[r], Id = r.
CsvFile(header, picks) ==
  [columns |-> header,
   rows |-> [r \in 1..Len(picks) |->
               [c \in 1..Len(header) |->
                  IF header[c] = "Id" THEN r
                  ELSE Houses[picks[r]][(CHOOSE k \in 2..Len(Header) : Header[k] = header[c]) - 1]]]]

Picks(n) == SeqsUpTo(1..Len(Houses), n) \ {<<>>}

\* ------------------------------------------------------- the notebook kernel
vars == <<train_csv, test_csv, names, housing, y, ct, shared, pipe_ct, ridge, X_t, housing_test, y_pred, model_file, dumped_pipe, final_pipe_new, y_pred_new, sub01, sub_csv, io, last, pc, budget, inOrder, n_fits>>

\* The code cells in document order.
Cells ==
  <<"read_train", "pop_target", "print_description", "select_columns",
    "make_transformers", "make_group_pipes", "make_column_transformer",
    "fit_transform", "make_final_pipe", "fit_final_pipe", "read_test", "predict",
    "dump_model", "load_model", "make_submission", "write_submission",
    "import_kaggle", "prepare_submit", "list_submissions", "all_in_one">>

Index(cell) == CHOOSE i \in 1..Len(Cells) : Cells[i] = cell

\* A cell runs when the run in document order reaches it, or out of turn.
Enabled(cell) == IF pc = Index(cell) THEN TRUE ELSE budget > 0

Advance(cell, outcome) ==
  /\ pc' = IF pc = Index(cell) THEN pc + 1 ELSE pc
  /\ budget' = IF pc = Index(cell) THEN budget ELSE budget - 1
  /\ inOrder' = (inOrder /\ pc = Index(cell))
  /\ last' = [cell |-> cell, outcome |-> outcome]

\* A statement that uses an unbound name raises NameError.
Bound(used) == used \subseteq names

\* df.pop(name): KeyError without the column; else the column leaves the table.
PopKeepsColumn(df, name) ==
  [raised |-> FALSE, frame |-> df, values |-> Values(df, name)]
Pop(df, name) ==
  IF HasColumn(df, name)
  THEN [raised |-> FALSE, frame |-> Without(df, name), values |-> Values(df, name)]
  ELSE [raised |-> TRUE, frame |-> df, values |-> <<>>]

\* What predict leaves of the pipeline it is called on: predict fits nothing.
AfterPredictRefits(pipe, df) == [pipe EXCEPT !.ct = FittedColumnTransformer(df)]
AfterPredict(pipe, df) == pipe

\* pd.DataFrame({'Id': housing_test['Id'], 'SalePrice': y_pred})
Submission(df, preds) ==
  [r \in 1..NumRows(df) |-> [Id |-> Values(df, "Id")[r], SalePrice |-> preds[r]]]

\* The calls to the competition's web API: the submission is commented out,
\* the listing of the submissions is not.
SubmitCallsUncommented == {<<"network", "kaggle.api.competition_submit">>}
SubmitCalls == {}
ListCalls == {<<"network", "kaggle.api.competitions_submissions_list">>}

NoFrame == [columns |-> <<>>, rows |-> <<>>]

\* The kernel before any cell has run.
Fresh(train, test, outOfOrder) ==
  /\ train_csv = train
  /\ test_csv = test
  /\ names = {}
  /\ housing = NoFrame
  /\ y = <<>>
  /\ ct = NewColumnTransformer
  /\ shared = FALSE
  /\ pipe_ct = NewColumnTransformer
  /\ ridge = NewRidge
  /\ X_t = <<>>
  /\ housing_test = NoFrame
  /\ y_pred = <<>>
  /\ model_file = <<>>
  /\ dumped_pipe = Pipe(NewColumnTransformer, NewRidge)
  /\ final_pipe_new = Pipe(NewColumnTransformer, NewRidge)
  /\ y_pred_new = <<>>
  /\ sub01 = <<>>
  /\ sub_csv = <<>>
  /\ io = {}
  /\ last = [cell |-> "", outcome |-> "ok"]
  /\ pc = 1
  /\ budget = outOfOrder
  /\ inOrder = TRUE
  /\ n_fits = 0

FirstHouses(n) == [r \in 1..n |-> r]
LastHouses(n) == [r \in 1..n |-> Len(Houses) + 1 - r]

\* The notebook run on one pair of files, cells also re-run and run out of turn.
Init ==
  \E n \in 1..MaxRows, m \in 1..MaxTestRows :
     Fresh(CsvFile(Header, FirstHouses(n)),
           Without(CsvFile(Header, LastHouses(m)), "SalePrice"),
           MaxExtra)

\* The notebook run in document order on every pair of files within the bounds.
InitData ==
  \E header \in {Header, HeaderShuffled}, train \in Picks(MaxRows), test \in Picks(MaxTestRows) :
     Fresh(CsvFile(header, train), Without(CsvFile(header, test), "SalePrice"), 0)

\* housing = pd.read_csv('data/train.csv')
ReadTrain ==
  /\ Enabled("read_train")
  /\ \E res \in {"ok"} :
       /\ Advance("read_train", res)
       /\ names' = names \cup {"pd", "housing"}
       /\ housing' = train_csv
       /\ io' = io \cup {<<"read", "data/train.csv">>}
  /\ UNCHANGED <<train_csv, test_csv, y, ct, shared, pipe_ct, ridge, X_t, housing_test, y_pred, model_file, dumped_pipe, final_pipe_new, y_pred_new, sub01, sub_csv, n_fits>>

\* y = housing.pop('SalePrice').values
PopTarget ==
  /\ Enabled("pop_target")
  /\ \E popped \in {Pop(housing, "SalePrice")} :
     \E res \in {IF ~Bound({"housing"}) THEN "NameError" ELSE IF popped.raised THEN "KeyError" ELSE "ok"} :
       /\ Advance("pop_target", res)
       /\ housing' = IF res = "ok" THEN popped.frame ELSE housing
       /\ y' = IF res = "ok" THEN popped.values ELSE y
       /\ names' = IF res = "ok" THEN names \cup {"y"} ELSE names
  /\ UNCHANGED <<train_csv, test_csv, ct, shared, pipe_ct, ridge, X_t, housing_test, y_pred, model_file, dumped_pipe, final_pipe_new, y_pred_new, sub01, sub_csv, io, n_fits>>

\* print(open('data/data_description.txt').read())
PrintDescription ==
  /\ Enabled("print_description")
  /\ \E res \in {"ok"} :
       /\ Advance("print_description", res)
       /\ io' = io \cup {<<"read", "data/data_description.txt">>}
  /\ UNCHANGED <<train_csv, test_csv, names, housing, y, ct, shared, pipe_ct, ridge, X_t, housing_test, y_pred, model_file, dumped_pipe, final_pipe_new, y_pred_new, sub01, sub_csv, n_fits>>

\* cat_cols = [...]; cont_cols = [...]
SelectColumns ==
  /\ Enabled("select_columns")
  /\ \E res \in {"ok"} :
       /\ Advance("select_columns", res)
       /\ names' = names \cup {"cols"}
  /\ UNCHANGED <<train_csv, test_csv, housing, y, ct, shared, pipe_ct, ridge, X_t, housing_test, y_pred, model_file, dumped_pipe, final_pipe_new, y_pred_new, sub01, sub_csv, io, n_fits>>

\* from sklearn...; si_cat, ohe, si_cont, ss = ...
MakeTransformers ==
  /\ Enabled("make_transformers")
  /\ \E res \in {"ok"} :
       /\ Advance("make_transformers", res)
       /\ names' = names \cup {"SimpleImputer", "si"}
  /\ UNCHANGED <<train_csv, test_csv, housing, y, ct, shared, pipe_ct, ridge, X_t, housing_test, y_pred, model_file, dumped_pipe, final_pipe_new, y_pred_new, sub01, sub_csv, io, n_fits>>

\* from sklearn.pipeline import Pipeline; cat_pipe = Pipeline(cat_steps); cont_pipe = ...
MakeGroupPipes ==
  /\ Enabled("make_group_pipes")
  /\ \E res \in {IF Bound({"si"}) THEN "ok" ELSE "NameError"} :
       /\ Advance("make_group_pipes", res)
       /\ names' = names \cup (IF res = "ok" THEN {"Pipeline", "pipes"} ELSE {"Pipeline"})
  /\ UNCHANGED <<train_csv, test_csv, housing, y, ct, shared, pipe_ct, ridge, X_t, housing_test, y_pred, model_file, dumped_pipe, final_pipe_new, y_pred_new, sub01, sub_csv, io, n_fits>>

\* from sklearn.compose import ColumnTransformer; ct = ColumnTransformer(transformers)
\* A new, unfitted dispatcher; a final_pipe built earlier keeps the old one.
MakeColumnTransformer ==
  /\ Enabled("make_column_transformer")
  /\ \E res \in {IF Bound({"pipes", "cols"}) THEN "ok" ELSE "NameError"} :
       /\ Advance("make_column_transformer", res)
       /\ names' = names \cup (IF res = "ok" THEN {"ColumnTransformer", "ct"} ELSE {"ColumnTransformer"})
       /\ ct' = IF res = "ok" THEN NewColumnTransformer ELSE ct
       /\ shared' = IF res = "ok" THEN FALSE ELSE shared
  /\ UNCHANGED <<train_csv, test_csv, housing, y, pipe_ct, ridge, X_t, housing_test, y_pred, model_file, dumped_pipe, final_pipe_new, y_pred_new, sub01, sub_csv, io, n_fits>>

\* X_t = ct.fit_transform(housing)
FitTransform ==
  /\ Enabled("fit_transform")
  /\ \E raises \in {Bound({"ct", "housing"}) /\ ColumnTransformerFitRaises(transformers, housing)} :
     \E fitted \in {IF Bound({"ct", "housing"}) /\ ~raises THEN FittedColumnTransformer(housing) ELSE ct} :
     \E res \in {IF ~Bound({"ct", "housing"}) THEN "NameError" ELSE IF raises THEN "ValueError" ELSE "ok"} :
       /\ Advance("fit_transform", res)
       /\ ct' = IF res = "ok" THEN fitted ELSE ct
       /\ pipe_ct' = IF res = "ok" /\ shared THEN fitted ELSE pipe_ct
       /\ X_t' = IF res = "ok" THEN CtTransform(fitted, housing) ELSE X_t
       /\ names' = IF res = "ok" THEN names \cup {"X_t"} ELSE names
       /\ n_fits' = IF res = "ok" THEN n_fits + 1 ELSE n_fits
  /\ UNCHANGED <<train_csv, test_csv, housing, y, shared, ridge, housing_test, y_pred, model_file, dumped_pipe, final_pipe_new, y_pred_new, sub01, sub_csv, io>>

\* ridge = Ridge(); steps = [('ct', ct), ('ridge', ridge)]; final_pipe = Pipeline(steps)
\* final_pipe holds the very object ct names, and the new ridge.
MakeFinalPipe ==
  /\ Enabled("make_final_pipe")
  /\ \E res \in {IF Bound({"ct", "Pipeline"}) THEN "ok" ELSE "NameError"} :
       /\ Advance("make_final_pipe", res)
       /\ names' = names \cup (IF res = "ok" THEN {"ridge", "final_pipe"} ELSE {"ridge"})
       /\ ridge' = NewRidge
       /\ pipe_ct' = IF res = "ok" THEN ct ELSE pipe_ct
       /\ shared' = IF res = "ok" THEN TRUE ELSE shared
  /\ UNCHANGED <<train_csv, test_csv, housing, y, ct, X_t, housing_test, y_pred, model_file, dumped_pipe, final_pipe_new, y_pred_new, sub01, sub_csv, io, n_fits>>

\* final_pipe.fit(housing, y)
FitFinalPipe ==
  /\ Enabled("fit_final_pipe")
  /\ \E raises \in {Bound({"final_pipe", "housing", "y"}) /\ ColumnTransformerFitRaises(transformers, housing)} :
     \E fitted \in {IF Bound({"final_pipe", "housing", "y"}) /\ ~raises THEN PipeFit(housing, y) ELSE Pipe(pipe_ct, ridge)} :
     \E res \in {IF ~Bound({"final_pipe", "housing", "y"}) THEN "NameError" ELSE IF raises THEN "ValueError" ELSE "ok"} :
       /\ Advance("fit_final_pipe", res)
       /\ pipe_ct' = IF res = "ok" THEN fitted.ct ELSE pipe_ct
       /\ ct' = IF res = "ok" /\ shared THEN fitted.ct ELSE ct
       /\ ridge' = IF res = "ok" THEN fitted.ridge ELSE ridge
       /\ n_fits' = IF res = "ok" THEN n_fits + 1 ELSE n_fits
  /\ UNCHANGED <<train_csv, test_csv, names, housing, y, shared, X_t, housing_test, y_pred, model_file, dumped_pipe, final_pipe_new, y_pred_new, sub01, sub_csv, io>>

\* housing_test = pd.read_csv('data/test.csv')
ReadTest ==
  /\ Enabled("read_test")
  /\ \E res \in {IF Bound({"pd"}) THEN "ok" ELSE "NameError"} :
       /\ Advance("read_test", res)
       /\ names' = IF res = "ok" THEN names \cup {"housing_test"} ELSE names
       /\ housing_test' = IF res = "ok" THEN test_csv ELSE housing_test
       /\ io' = IF res = "ok" THEN io \cup {<<"read", "data/test.csv">>} ELSE io
  /\ UNCHANGED <<train_csv, test_csv, housing, y, ct, shared, pipe_ct, ridge, X_t, y_pred, model_file, dumped_pipe, final_pipe_new, y_pred_new, sub01, sub_csv, n_fits>>

\* y_pred = final_pipe.predict(housing_test)
Predict ==
  /\ Enabled("predict")
  /\ \E pipe \in {Pipe(pipe_ct, ridge)} :
     \E res \in {IF ~Bound({"final_pipe", "housing_test"}) THEN "NameError" ELSE PredictOutcome(pipe, housing_test)} :
       /\ Advance("predict", res)
       /\ y_pred' = IF res = "ok" THEN PipePredict(pipe, housing_test) ELSE y_pred
       /\ names' = IF res = "ok" THEN names \cup {"y_pred"} ELSE names
       /\ pipe_ct' = IF res = "ok" THEN AfterPredict(pipe, housing_test).ct ELSE pipe_ct
       /\ ct' = IF res = "ok" /\ shared THEN AfterPredict(pipe, housing_test).ct ELSE ct
       /\ ridge' = IF res = "ok" THEN AfterPredict(pipe, housing_test).ridge ELSE ridge
  /\ UNCHANGED <<train_csv, test_csv, housing, y, shared, X_t, housing_test, model_file, dumped_pipe, final_pipe_new, y_pred_new, sub01, sub_csv, io, n_fits>>

\* import joblib; joblib.dump(final_pipe, 'models/minipipeline_ridge.joblib')
DumpModel ==
  /\ Enabled("dump_model")
  /\ \E pipe \in {Pipe(pipe_ct, ridge)} :
     \E res \in {IF Bound({"final_pipe"}) THEN "ok" ELSE "NameError"} :
       /\ Advance("dump_model", res)
       /\ names' = names \cup {"joblib"}
       /\ model_file' = IF res = "ok" THEN Dump(pipe) ELSE model_file
       /\ dumped_pipe' = IF res = "ok" THEN pipe ELSE dumped_pipe
       /\ io' = IF res = "ok" THEN io \cup {<<"write", "models/minipipeline_ridge.joblib">>} ELSE io
  /\ UNCHANGED <<train_csv, test_csv, housing, y, ct, shared, pipe_ct, ridge, X_t, housing_test, y_pred, final_pipe_new, y_pred_new, sub01, sub_csv, n_fits>>

\* final_pipe_new = joblib.load('models/minipipeline_ridge.joblib')
\* y_pred_new = final_pipe_new.predict(housing_test); (y_pred == y_pred_new).all()
\* The statements run until the first one that raises.
LoadModel ==
  /\ Enabled("load_model")
  /\ \E canLoad \in {Bound({"joblib"}) /\ model_file # <<>>} :
     \E loaded \in {IF canLoad THEN Load(model_file) ELSE final_pipe_new} :
     \E predicted \in {IF canLoad /\ Bound({"housing_test"}) THEN PredictOutcome(loaded, housing_test) ELSE "no"} :
     \E res \in {IF ~Bound({"joblib"}) THEN "NameError" ELSE IF model_file = <<>> THEN "FileNotFoundError" ELSE IF ~Bound({"housing_test"}) THEN "NameError" ELSE IF predicted # "ok" THEN predicted ELSE IF ~Bound({"y_pred"}) THEN "NameError" ELSE "ok"} :
       /\ Advance("load_model", res)
       /\ final_pipe_new' = loaded
       /\ y_pred_new' = IF predicted = "ok" THEN PipePredict(loaded, housing_test) ELSE y_pred_new
       /\ names' = names \cup (IF canLoad THEN {"final_pipe_new"} ELSE {}) \cup (IF predicted = "ok" THEN {"y_pred_new"} ELSE {})
       /\ io' = IF canLoad THEN io \cup {<<"read", "models/minipipeline_ridge.joblib">>} ELSE io
  /\ UNCHANGED <<train_csv, test_csv, housing, y, ct, shared, pipe_ct, ridge, X_t, housing_test, y_pred, model_file, dumped_pipe, sub01, sub_csv, n_fits>>

\* sub01 = pd.DataFrame({'Id': housing_test['Id'], 'SalePrice': y_pred})
MakeSubmission ==
  /\ Enabled("make_submission")
  /\ \E res \in {IF Bound({"pd", "housing_test", "y_pred"}) THEN "ok" ELSE "NameError"} :
       /\ Advance("make_submission", res)
       /\ sub01' = IF res = "ok" THEN Submission(housing_test, y_pred) ELSE sub01
       /\ names' = IF res = "ok" THEN names \cup {"sub01"} ELSE names
  /\ UNCHANGED <<train_csv, test_csv, housing, y, ct, shared, pipe_ct, ridge, X_t, housing_test, y_pred, model_file, dumped_pipe, final_pipe_new, y_pred_new, sub_csv, io, n_fits>>

\* sub01.to_csv('data/submissions/20190710/sub01.csv', index=False)
WriteSubmission ==
  /\ Enabled("write_submission")
  /\ \E res \in {IF Bound({"sub01"}) THEN "ok" ELSE "NameError"} :
       /\ Advance("write_submission", res)
       /\ sub_csv' = IF res = "ok" THEN sub01 ELSE sub_csv
       /\ io' = IF res = "ok" THEN io \cup {<<"write", "data/submissions/20190710/sub01.csv">>} ELSE io
  /\ UNCHANGED <<train_csv, test_csv, names, housing, y, ct, shared, pipe_ct, ridge, X_t, housing_test, y_pred, model_file, dumped_pipe, final_pipe_new, y_pred_new, sub01, n_fits>>

\* import kaggle
ImportKaggle ==
  /\ Enabled("import_kaggle")
  /\ \E res \in {"ok"} :
       /\ Advance("import_kaggle", res)
       /\ names' = names \cup {"kaggle"}
  /\ UNCHANGED <<train_csv, test_csv, housing, y, ct, shared, pipe_ct, ridge, X_t, housing_test, y_pred, model_file, dumped_pipe, final_pipe_new, y_pred_new, sub01, sub_csv, io, n_fits>>

\* file = ...; message = ...; competition = ...
\* # kaggle.api.competition_submit(file, message, competition)
PrepareSubmit ==
  /\ Enabled("prepare_submit")
  /\ \E res \in {"ok"} :
       /\ Advance("prepare_submit", res)
       /\ names' = names \cup {"competition"}
       /\ io' = io \cup SubmitCalls
  /\ UNCHANGED <<train_csv, test_csv, housing, y, ct, shared, pipe_ct, ridge, X_t, housing_test, y_pred, model_file, dumped_pipe, final_pipe_new, y_pred_new, sub01, sub_csv, n_fits>>

\* all_submissions = kaggle.api.competitions_submissions_list(competition)
\* all_submissions[0]: IndexError when the service answers with an empty list.
ListSubmissions ==
  /\ Enabled("list_submissions")
  /\ \E res \in (IF Bound({"kaggle", "competition"}) THEN {"ok", "IndexError"} ELSE {"NameError"}) :
       /\ Advance("list_submissions", res)
       /\ names' = IF res # "NameError" THEN names \cup {"all_submissions"} ELSE names
       /\ io' = IF res # "NameError" THEN io \cup ListCalls ELSE io
  /\ UNCHANGED <<train_csv, test_csv, housing, y, ct, shared, pipe_ct, ridge, X_t, housing_test, y_pred, model_file, dumped_pipe, final_pipe_new, y_pred_new, sub01, sub_csv, n_fits>>

\* The whole mini pipeline again, in one cell: new transformers, pipes, ct and
\* final_pipe (around the ridge already there), fit, predict, submission file.
\* reached counts the statement groups that ran before one raised.
AllInOne ==
  /\ Enabled("all_in_one")
  /\ \E ready \in {Bound({"SimpleImputer", "Pipeline", "ColumnTransformer", "ridge", "housing", "y"})} :
     \E raises \in {ready /\ ColumnTransformerFitRaises(transformers, housing)} :
     \E fitted \in {IF ready /\ ~raises THEN PipeFit(housing, y) ELSE Pipe(NewColumnTransformer, ridge)} :
     \E predicted \in {IF ready /\ ~raises /\ Bound({"housing_test"}) THEN PredictOutcome(fitted, housing_test) ELSE "no"} :
     \E preds \in {IF predicted = "ok" THEN PipePredict(fitted, housing_test) ELSE y_pred} :
     \E reached \in {IF ~Bound({"SimpleImputer"}) THEN 0 ELSE IF ~Bound({"Pipeline"}) THEN 1 ELSE IF ~Bound({"ColumnTransformer"}) THEN 2 ELSE IF ~Bound({"ridge"}) THEN 3 ELSE IF ~Bound({"housing", "y"}) THEN 4 ELSE IF raises THEN 5 ELSE IF ~Bound({"housing_test"}) THEN 6 ELSE IF predicted # "ok" THEN 7 ELSE 8} :
     \E res \in {IF reached = 8 THEN "ok" ELSE IF reached = 5 THEN "ValueError" ELSE IF reached = 7 THEN predicted ELSE "NameError"} :
       /\ Advance("all_in_one", res)
       /\ names' = names \cup (IF reached >= 1 THEN {"si", "cols"} ELSE {}) \cup (IF reached >= 2 THEN {"pipes"} ELSE {}) \cup (IF reached >= 3 THEN {"ct"} ELSE {}) \cup (IF reached >= 4 THEN {"final_pipe"} ELSE {}) \cup (IF reached = 8 THEN {"y_pred", "sub01"} ELSE {})
       /\ ct' = IF reached >= 3 THEN fitted.ct ELSE ct
       /\ shared' = IF reached >= 4 THEN TRUE ELSE IF reached = 3 THEN FALSE ELSE shared
       /\ pipe_ct' = IF reached >= 4 THEN fitted.ct ELSE pipe_ct
       /\ ridge' = IF reached >= 6 THEN fitted.ridge ELSE ridge
       /\ n_fits' = IF reached >= 6 THEN n_fits + 1 ELSE n_fits
       /\ y_pred' = preds
       /\ sub01' = IF reached = 8 THEN Submission(housing_test, preds) ELSE sub01
       /\ sub_csv' = IF reached = 8 THEN Submission(housing_test, preds) ELSE sub_csv
       /\ io' = IF reached = 8 THEN io \cup {<<"write", "data/submissions/20190710/sub01.csv">>} ELSE io
  /\ UNCHANGED <<train_csv, test_csv, housing, y, X_t, housing_test, model_file, dumped_pipe, final_pipe_new, y_pred_new>>

Next ==
  \/ ReadTrain
  \/ PopTarget
  \/ PrintDescription
  \/ SelectColumns
  \/ MakeTransformers
  \/ MakeGroupPipes
  \/ MakeColumnTransformer
  \/ FitTransform
  \/ MakeFinalPipe
  \/ FitFinalPipe
  \/ ReadTest
  \/ Predict
  \/ DumpModel
  \/ LoadModel
  \/ MakeSubmission
  \/ WriteSubmission
  \/ ImportKaggle
  \/ PrepareSubmit
  \/ ListSubmissions
  \/ AllInOne

Spec == Init /\ [][Next]_vars

SpecData == InitData /\ [][Next]_vars

\* ================================================================ properties
Range(s) == {s[i] : i \in DOMAIN s}
Declared == Range(cat_cols) \cup Range(cont_cols)

\* The values a column holds, missing cells aside.
ObservedValues(df, c) == {v \in Range(Values(df, c)) : v # NaN}

\* df with every cell of the columns in S emptied.
Blank(df, S) ==
  [columns |-> df.columns,
   rows |-> [r \in 1..NumRows(df) |->
               [c \in 1..Len(df.columns) |->
                  IF df.columns[c] \in S THEN NaN ELSE df.rows[r][c]]]]

\* df with every observed cell of the columns in S replaced by another value.
Scramble(df, S) ==
  [columns |-> df.columns,
   rows |-> [r \in 1..NumRows(df) |->
               [c \in 1..Len(df.columns) |->
                  IF df.columns[c] \in S /\ df.rows[r][c] # NaN
                  THEN df.rows[r][c] + r ELSE df.rows[r][c]]]]

\* The categories of the categorical columns: the pairs <<column, value>>.
Categories(df) ==
  UNION {{<<c, v>> : v \in ObservedValues(df, c)} : c \in Range(cat_cols)}

Reverse(s) == [i \in 1..Len(s) |-> s[Len(s) + 1 - i]]

\* The same table with its columns stored in the opposite order.
Mirror(df) ==
  [columns |-> Reverse(df.columns),
   rows |-> [r \in 1..NumRows(df) |-> Reverse(df.rows[r])]]

Ran(cell, outcome) == last = [cell |-> cell, outcome |-> outcome]
NotDeclared(df) == Range(df.columns) \ Declared
FinalPipe == Pipe(pipe_ct, ridge)
IsFitted(pipe) == pipe.ct.fitted /\ pipe.ridge.fitted

\* One-row prediction inputs, one per house.
PredictionInputs ==
  {Without(CsvFile(Header, <<h>>), "SalePrice") : h \in 1..Len(Houses)}

\* C1: a fitted pipeline that was dumped and loaded back predicts, for every
\* prediction input, exactly what the pipeline that was dumped predicts; the
\* notebook's own comparison of y_pred_new with the original's predictions on
\* housing_test comes out equal.
C1_RoundTrip ==
  (Bound({"final_pipe_new"}) /\ IsFitted(dumped_pipe)) =>
     /\ \A df \in PredictionInputs \cup {test_csv} :
           /\ PredictOutcome(final_pipe_new, df) = "ok"
           /\ PipePredict(final_pipe_new, df) = PipePredict(dumped_pipe, df)
     /\ Ran("load_model", "ok") =>
           /\ y_pred_new = PipePredict(dumped_pipe, housing_test)
           /\ y_pred_new = y_pred

C1_Witness ==
  /\ Ran("load_model", "ok")
  /\ IsFitted(dumped_pipe)
  /\ Len(y_pred_new) = NumRows(test_csv)
  /\ \E c \in Range(cont_cols) : ObservedValues(train_csv, c) # Range(Values(train_csv, c))

\* C2: the output of ct.fit_transform and of ct.transform derives from declared
\* columns only: no output column comes from a column outside cat_cols and
\* cont_cols, the output and the outcome are the same whatever those columns
\* hold, and their presence raises nothing.
C2_DropInvariant ==
  /\ Ran("fit_transform", "ok") =>
        /\ Range(FeatureNames(transformers, ct.transformers_, housing)) \subseteq Declared
        /\ Len(FeatureNames(transformers, ct.transformers_, housing)) = NumCols(X_t)
        /\ \A other \in {Blank(housing, NotDeclared(housing)),
                         Scramble(housing, NotDeclared(housing))} :
              /\ ~ColumnTransformerFitRaises(transformers, other)
              /\ X_t = CtTransform(FittedColumnTransformer(other), other)
  /\ Ran("fit_transform", "ValueError") =>
        ColumnTransformerFitRaises(transformers, Blank(housing, NotDeclared(housing)))
  /\ Ran("predict", "ok") =>
        /\ CtTransform(pipe_ct, housing_test)
             = CtTransform(pipe_ct, Scramble(housing_test, NotDeclared(housing_test)))
        /\ y_pred = PipePredict(FinalPipe, Scramble(housing_test, NotDeclared(housing_test)))

C2_Witness ==
  /\ Ran("fit_transform", "ok")
  /\ \E c \in NotDeclared(housing) : ObservedValues(housing, c) # {}
  /\ NumCols(X_t) < Len(housing.columns)

CellsOf(X, featureNames, r, c) ==
  {X[r][k] : k \in {i \in 1..Len(featureNames) : featureNames[i] = c}}

\* Row r of df holds, in categorical column c, a value not seen in training.
Unseen(df, r, c) ==
  /\ Values(df, c)[r] # NaN
  /\ Values(df, c)[r] \notin ObservedValues(train_csv, c)

\* C4: predicting on a row whose value in a categorical column was not seen
\* in that column at fit raises nothing, and that row's indicator columns for
\* that column are all zero.
C4_UnseenCategory ==
  (last.cell = "predict" /\ Bound({"final_pipe", "housing_test"}) /\ IsFitted(FinalPipe)) =>
     /\ last.outcome = "ok"
     /\ Len(y_pred) = NumRows(housing_test)
     /\ \A r \in 1..NumRows(housing_test) : \A c \in Range(cat_cols) :
           Unseen(housing_test, r, c) =>
              CellsOf(CtTransform(pipe_ct, housing_test),
                      FeatureNames(transformers, pipe_ct.transformers_, housing_test),
                      r, c) \subseteq {Plain(0)}

C4_Witness ==
  /\ Ran("predict", "ok")
  /\ \E r \in 1..NumRows(housing_test) : \E c \in Range(cat_cols) :
        /\ Unseen(housing_test, r, c)
        /\ CellsOf(CtTransform(pipe_ct, housing_test),
                   FeatureNames(transformers, pipe_ct.transformers_, housing_test),
                   r, c) = {Plain(0)}

\* The place of a declared column in the order of declaration.
Place(c) == CHOOSE i \in 1..Len(cat_cols \o cont_cols) : (cat_cols \o cont_cols)[i] = c

\* The first n cells of every row, and the cells after them.
LeftBlock(X, n) == [r \in 1..Len(X) |-> SubSeq(X[r], 1, n)]
RightBlock(X, n) == [r \in 1..Len(X) |-> SubSeq(X[r], n + 1, Len(X[r]))]
NumCategorical(featureNames) ==
  Cardinality({i \in 1..Len(featureNames) : featureNames[i] \in Range(cat_cols)})

\* C5: the output columns of the dispatcher follow the order of declaration,
\* every categorical column's before every continuous column's; the output is
\* the same when the input stores its columns in another order; and a group's
\* block of the output does not depend on the other group's columns.
C5_OutputOrder ==
  Ran("fit_transform", "ok") =>
     LET featureNames == FeatureNames(transformers, ct.transformers_, housing)
         n == NumCategorical(featureNames)
         noCont == Blank(housing, Range(cont_cols))
         noCat == Blank(housing, Range(cat_cols))
     IN  /\ \A i, j \in 1..Len(featureNames) :
               i < j => Place(featureNames[i]) <= Place(featureNames[j])
         /\ \A r \in 1..Len(X_t) : \A k \in 1..n : X_t[r][k] \in {Plain(0), Plain(1)}
         /\ X_t = CtTransform(FittedColumnTransformer(Mirror(housing)), Mirror(housing))
         /\ LeftBlock(X_t, n) = CtTransform(FittedColumnTransformer(noCont), noCont)
         /\ RightBlock(X_t, n) = CtTransform(FittedColumnTransformer(noCat), noCat)

C5_Witness ==
  /\ Ran("fit_transform", "ok")
  /\ housing.columns # Without(CsvFile(Header, <<1>>), "SalePrice").columns
  /\ NumCategorical(FeatureNames(transformers, ct.transformers_, housing)) > 0
  /\ NumCategorical(FeatureNames(transformers, ct.transformers_, housing)) < NumCols(X_t)

\* Everything the pipelines have learned.
Learned == <<ct, pipe_ct, ridge, final_pipe_new>>

\* C6: a call of predict on the fitted top-level pipeline changes no learned
\* parameter, and its result is the one the unchanged pipeline gives again for
\* the same input.
C6_PredictDoesNotFit ==
  [][(last'.cell = "predict") =>
        /\ Learned' = Learned
        /\ (last'.outcome = "ok") =>
              /\ y_pred' = PipePredict(FinalPipe, housing_test)
              /\ y_pred' = PipePredict(FinalPipe', housing_test')
              /\ (Ran("predict", "ok") => y_pred' = y_pred)]_vars

\* predict has been called again, out of turn, after the run passed it.
C6_Witness ==
  /\ Ran("predict", "ok")
  /\ ~inOrder
  /\ pc > Index("predict")
  /\ budget < MaxExtra

\* C7 as claimed: in a run of the cells in order the chains' parameters are
\* estimated exactly once, and from the training data only.
C7_EstimatedOnce ==
  inOrder =>
     /\ n_fits <= 1
     /\ ct.fitted => ct.transformers_ = ColumnTransformerFit(transformers, train_csv)

\* C7, amended: in a run of the cells in order the chains' parameters are
\* estimated by each of the three fitting calls (ct.fit_transform,
\* final_pipe.fit, and final_pipe.fit of the all-in-one cell), every time from
\* the training data only: whatever has been learned is what the training file
\* alone determines, and the test data never enters it.
C7_TrainingDataOnly ==
  /\ ct.fitted => ct.transformers_ = ColumnTransformerFit(transformers, train_csv)
  /\ pipe_ct.fitted => pipe_ct.transformers_ = ColumnTransformerFit(transformers, train_csv)
  /\ ridge.fitted =>
        ridge.coef_ = RidgeFit(CtTransform(FittedColumnTransformer(train_csv), train_csv),
                               Values(train_csv, "SalePrice"))
  /\ inOrder =>
        n_fits = Cardinality({c \in {"fit_transform", "fit_final_pipe", "all_in_one"} :
                                 Index(c) < pc})

C7_Witness ==
  /\ inOrder
  /\ pc > Len(Cells)
  /\ n_fits > 2
  /\ Bound({"housing_test", "y_pred"})
  /\ train_csv.rows # test_csv.rows

\* C8: final_pipe.fit fits the regression model on the dispatcher's output for
\* the training table, with y, never on raw columns; within the chains the
\* encoder and the scaler are fitted on the imputers' output, so the encoder's
\* categories hold no missing value and the scaler's mean is that of the imputed
\* column.
C8_FitOrder ==
  (Ran("fit_final_pipe", "ok") \/ Ran("all_in_one", "ok")) =>
     LET cat == pipe_ct.transformers_[1]
         cont == pipe_ct.transformers_[2]
         catImputed == SimpleImputerTransform(cat[1], Select(housing, cat_cols))
         contImputed == SimpleImputerTransform(cont[1], Select(housing, cont_cols))
     IN  /\ ridge.fitted
         /\ ridge.coef_.X = CtTransform(pipe_ct, housing)
         /\ ridge.coef_.y = y
         /\ cat[1] = SimpleImputerFit("most_frequent", Select(housing, cat_cols))
         /\ cont[1] = SimpleImputerFit("mean", Select(housing, cont_cols))
         /\ \A j \in 1..NumCols(catImputed) :
               /\ Range(cat[2].categories_[j]) = Range(Column(catImputed, j))
               /\ NaNStat \notin Range(cat[2].categories_[j])
         /\ \A j \in 1..NumCols(contImputed) :
               /\ cont[2].mean_[j] = RatMean(Column(contImputed, j))
               /\ cont[2].mean_[j] # NaNStat

C8_Witness ==
  /\ Ran("fit_final_pipe", "ok")
  /\ \E c \in Range(cat_cols) : NaN \in Range(Values(housing, c)) /\ ObservedValues(housing, c) # {}
  /\ \E c \in Range(cont_cols) : NaN \in Range(Values(housing, c)) /\ ObservedValues(housing, c) # {}

InputFiles ==
  {<<"read", "data/train.csv">>, <<"read", "data/data_description.txt">>,
   <<"read", "data/test.csv">>}
OutputFiles ==
  {<<"write", "models/minipipeline_ridge.joblib">>,
   <<"write", "data/submissions/20190710/sub01.csv">>}

\* C9 as claimed: no call over the network is made; the only I/O is reading the
\* input files, writing the model file and writing the submission file.
C9_NoNetworkCall == io \subseteq (InputFiles \cup OutputFiles)

\* C9, amended: the submission call kaggle.api.competition_submit is never made
\* (it is commented out), but the run does call the competition's web API once,
\* through kaggle.api.competitions_submissions_list, and it reads the model
\* file back; there is no other I/O than these, reading the input files,
\* writing the model file and writing the submission file.
C9_NoSubmitCall ==
  /\ <<"network", "kaggle.api.competition_submit">> \notin io
  /\ io \subseteq (InputFiles \cup OutputFiles
                     \cup {<<"read", "models/minipipeline_ridge.joblib">>,
                           <<"network", "kaggle.api.competitions_submissions_list">>})
  /\ (inOrder /\ pc > Index("list_submissions")) =>
        <<"network", "kaggle.api.competitions_submissions_list">> \in io
  /\ (inOrder /\ pc > Index("load_model")) =>
        <<"read", "models/minipipeline_ridge.joblib">> \in io

C9_Witness ==
  /\ inOrder
  /\ pc > Len(Cells)
  /\ Bound({"competition", "all_submissions"})
  /\ OutputFiles \subseteq io

HasTarget(df) == HasColumn(df, "SalePrice")

\* C10: extracting the target takes the SalePrice column out of the training
\* table and returns its values; executing the step again on the table fails
\* with KeyError and leaves the table and y as they were; the table that has
\* lost the column does not get it back unless the file is read again, and in a
\* run in order no fit ever sees it.
C10_PopTarget ==
  /\ [][(last'.cell = "pop_target") =>
           /\ (last'.outcome = "ok") =>
                 /\ HasTarget(housing)
                 /\ housing' = Without(housing, "SalePrice")
                 /\ ~HasTarget(housing')
                 /\ y' = Values(housing, "SalePrice")
           /\ (Bound({"housing"}) /\ ~HasTarget(housing)) =>
                 /\ last'.outcome = "KeyError"
                 /\ housing' = housing
                 /\ y' = y
                 /\ names' = names]_vars
  /\ [][(Bound({"y"}) /\ ~HasTarget(housing) /\ last'.cell # "read_train") =>
           ~HasTarget(housing')]_vars
  /\ [][(inOrder' /\ last'.cell \in {"fit_transform", "fit_final_pipe", "all_in_one"}) =>
           ~HasTarget(housing)]_vars

\* The extraction has been executed a second time and has failed.
C10_Witness ==
  /\ Ran("pop_target", "KeyError")
  /\ Bound({"housing", "y"})
  /\ Len(y) = NumRows(housing)


\* Predictions that come from learned coefficients.
FromFitted(preds) == \A i \in DOMAIN preds : preds[i].coef_ # NewRidge.coef_

LearntFrom(df) == [fitted |-> TRUE, transformers_ |-> ColumnTransformerFit(transformers, df)]
ModelFrom(df, target) ==
  [fitted |-> TRUE, coef_ |-> RidgeFit(CtTransform(LearntFrom(df), df), target)]

\* C12: every completed fit (ct.fit_transform, final_pipe.fit, and the fit of
\* the all-in-one cell) leaves exactly the parameters computed from that call's
\* data, whatever the object had learned before; an object that was fitted
\* already keeps the same parameters and gives the same predictions after the
\* fit as before it; and fitting an already fitted object raises no error.
C12_RefitOverwrites ==
  /\ [][(n_fits' = n_fits + 1) =>
           /\ (last'.cell = "fit_transform") =>
                 /\ ct' = LearntFrom(housing)
                 /\ shared => pipe_ct' = LearntFrom(housing)
                 /\ ct.fitted => ct' = ct
                 /\ (ct.fitted /\ Bound({"X_t"})) => X_t' = X_t
           /\ (last'.cell \in {"fit_final_pipe", "all_in_one"}) =>
                 /\ pipe_ct' = LearntFrom(housing)
                 /\ ridge' = ModelFrom(housing, y)
                 /\ pipe_ct.fitted => pipe_ct' = pipe_ct
                 /\ ridge.fitted => ridge' = ridge
                 /\ IsFitted(FinalPipe) =>
                       \A df \in PredictionInputs \cup {test_csv} :
                          PipePredict(FinalPipe', df) = PipePredict(FinalPipe, df)]_vars
  /\ [][(/\ last'.cell = "fit_transform"
         /\ Bound({"ct", "housing"})
         /\ ct.fitted) => (last'.outcome = "ok" /\ n_fits' = n_fits + 1)]_vars
  /\ [][(/\ last'.cell = "fit_final_pipe"
         /\ Bound({"final_pipe", "housing", "y"})
         /\ pipe_ct.fitted) => (last'.outcome = "ok" /\ n_fits' = n_fits + 1)]_vars

\* The all-in-one cell has fitted again a model that was fitted before, after
\* the dispatcher had been fitted twice.
C12_Witness ==
  /\ Ran("all_in_one", "ok")
  /\ n_fits >= 3
  /\ IsFitted(FinalPipe)
  /\ ridge = ModelFrom(housing, y)
  /\ ct = pipe_ct
====
